---- MODULE Spec2Model ----
(***************************************************************************)
(* Model of the VWisper overlay window (src/components/WaveWindow.tsx,     *)
(* component BubbleWindow) and of the update-check cache                    *)
(* (src/hooks/use-update.ts, class UpdateManager).                          *)
(*                                                                          *)
(* BubbleWindow: every backend event listener and every setTimeout          *)
(* callback is one action.  Pending setTimeout callbacks are kept in the    *)
(* bag `timers`; each carries the time left until it is due.  Time passes   *)
(* in steps of TickMs, and never past a timer that is due, which is how     *)
(* the browser's timer queue orders callbacks.                              *)
(*                                                                          *)
(* UpdateManager: checkForUpdates() is split at its await: the synchronous  *)
(* part is CheckForUpdates, the continuation is ProbeResolves or            *)
(* ProbeRejects.  The useUpdate hook wraps each call in its loading flag.    *)
(*                                                                          *)
(* App (src/App.tsx, the pill): the bar effect, its asynchronous            *)
(* listen("audio-data") registration and the mapping of samples to bar      *)
(* heights.                                                                 *)
(***************************************************************************)
EXTENDS Integers, Sequences, FiniteSets, Bags, TLC

\* --------------------------------------------------------------------------
\* Bounds of the model
\* --------------------------------------------------------------------------
\* Backend events that schedule a timer are delivered only while fewer than
\* MaxTimers callbacks are pending.
MaxTimers == 2

\* The update-check clock advances at most MaxClockSteps times.
MaxClockSteps == 10

\* A listener effect runs at most MaxEffectRuns times (mount, re-mount).
MaxEffectRuns == 2

\* An audio-data payload carries at most MaxSamples samples.
MaxSamples == 11

\* At most MaxLeaked listen() calls of the pill lose their unlisten function.
MaxLeaked == 1

\* --------------------------------------------------------------------------
\* Program constants
\* --------------------------------------------------------------------------
ExpandDelay == 300
CompletedDelay == 1500
ErrorDelay == 2000
LeavingDelay == 400
CHECK_COOLDOWN == 5000

\* listen() calls awaited one after the other by App's setupListeners.
NumAppListeners == 6

\* The pill (App.tsx).
BAR_COUNT == 10
BAR_MIN_HEIGHT == 5
BAR_MAX_HEIGHT == 20
SENSITIVITY == 5
\* 0.05, in thousandths.
Deadband == 50
\* 1.0, in thousandths.
FullLevel == 1000

UIState == {"recording", "loading", "success", "error"}

\* BubbleWindow's canvas and bars.
WaveBarCount == 8
CanvasHeight == 24
WaveBarMinHeight == 3
IdleBarHeight == 2

\* Amplitudes are in thousandths; heights are in 1/10000 px, so that
\* sample * height * 0.8 is exact.
Px(n) == n * 10000

\* Array(BAR_COUNT).fill(BAR_MIN_HEIGHT)
MinBars == [i \in 1..BAR_COUNT |-> Px(BAR_MIN_HEIGHT)]

RECURSIVE Gcd(_, _)
Gcd(a, b) == IF b = 0 THEN a ELSE Gcd(b, a % b)

\* Granularity of the timer clock: the largest step that meets every delay.
TickMs == Gcd(Gcd(ExpandDelay, CompletedDelay), Gcd(ErrorDelay, LeavingDelay))

\* Granularity of the wall clock read by Date.now() in checkForUpdates.
ClockStep == CHECK_COOLDOWN \div 5

\* Date.now() is far beyond CHECK_COOLDOWN when the page loads.
StartTime == 2 * CHECK_COOLDOWN

ProcessingState ==
    {"idle", "recording", "expanding", "processing", "completed", "error", "leaving"}

EmptyAudio == [samples |-> << >>, volume |-> 0]

\* Payloads of the audio-data event (amplitudes in thousandths).
AudioFrames == {EmptyAudio, [samples |-> <<500>>, volume |-> 500]}

\* Amplitudes of the samples, in thousandths: negative, silent, below and at
\* the deadband after scaling, saturating, above 1.
Amplitudes == {-500, 0, 5, 10, 500, 2000}

\* Sample arrays of the audio-data event: n samples, the last one a, the
\* others all silent or all saturating.
SampleFrames ==
    {[i \in 1..n |-> IF i = n THEN a ELSE b] :
        n \in 0..MaxSamples, a \in Amplitudes, b \in {0, 500}}

\* Results of the check_for_updates command.
UpdateInfos ==
    { [current_version |-> 1, latest_version |-> 1, has_update |-> FALSE],
      [current_version |-> 1, latest_version |-> 2, has_update |-> TRUE] }

NoInfo == [current_version |-> 0, latest_version |-> 0, has_update |-> FALSE]

VARIABLES
    processingState,    \* useState<ProcessingState>
    isReceivingAudio,   \* useState(false)
    audioData,          \* useState<AudioData>
    timers,             \* bag of pending setTimeout callbacks
    sessionHides,       \* hide_wave_window invocations since the state last left idle
    quiet,              \* "completed"/"error"/"cancelled": the last backend event; else "none"
    chainHides,         \* hide_wave_window invocations since the last backend event
    stopped,            \* recording-stopped was handled since the last recording-started
    now,                \* Date.now()
    checkInProgress,    \* UpdateManager.checkInProgress
    lastCheckTime,      \* UpdateManager.lastCheckTime
    cachedUpdateInfo,   \* UpdateManager.cachedUpdateInfo (NoInfo models null)
    probesInFlight,     \* invoke("check_for_updates") promises not yet settled
    callResult,         \* outcome of the latest checkForUpdates() call
    issuer,             \* the call that issued the latest probe, and its outcome
    overlap,            \* outcome of the latest call made while that probe was in flight
    loading,            \* useUpdate: useState(false)
    hookPending,        \* useUpdate: checkForUpdates calls of the hook not yet settled
    checkingUpdates,    \* Dashboard: useState(false)
    dashboardMounted,   \* Dashboard: the mount effect has run
    dashboardProbes,    \* Dashboard: invoke("check_for_updates") promises not yet settled
    tornDown,           \* BubbleWindow: the listener effect's cleanup has run
    appEffect,          \* App: the runs of the listener effect
    waveEffect,         \* BubbleWindow: the runs of the listener effect
    handled,            \* listeners that ran for the latest recording-started
    uiState,            \* App: useState<UIState>(UIState.Recording)
    barHeights,         \* App: useState<number[]>
    audioListener,      \* App: listen("audio-data") of the current effect run
    orphanPending,      \* App: listen() promises pending when their cleanup ran
    orphans,            \* App: audio-data listeners no cleanup will remove
    shown               \* App: the latest frame handled, and whether it was mapped

waveVars == <<processingState, isReceivingAudio, audioData, timers,
              sessionHides, quiet, chainHides, stopped>>
updateVars == <<now, checkInProgress, lastCheckTime, cachedUpdateInfo,
                probesInFlight, callResult, issuer, overlap, loading, hookPending>>
dashboardVars == <<checkingUpdates, dashboardMounted, dashboardProbes>>
vars == <<processingState, isReceivingAudio, audioData, timers,
          sessionHides, quiet, chainHides, stopped,
          now, checkInProgress, lastCheckTime, cachedUpdateInfo,
          probesInFlight, callResult, issuer, overlap, loading, hookPending,
          checkingUpdates, dashboardMounted, dashboardProbes,
          tornDown, appEffect, waveEffect, handled,
          uiState, barHeights, audioListener, orphanPending, orphans, shown>>
mountVars == <<appEffect, waveEffect, handled>>
pillVars == <<uiState, barHeights, audioListener, orphanPending, orphans, shown>>

\* What a step of BubbleWindow leaves alone, and what a step of UpdateManager
\* leaves alone.
outsideWave == <<updateVars, dashboardVars, tornDown, mountVars, pillVars>>
outsideUpdate == <<waveVars, dashboardVars, tornDown, mountVars, pillVars>>

\* --------------------------------------------------------------------------
\* Timers
\* --------------------------------------------------------------------------
\* kind: which callback; left: ms until due; fresh: processingState has not
\* changed since the callback was scheduled.
Timer(kind, delay) == [kind |-> kind, left |-> delay, fresh |-> TRUE]

NumPending == BagCardinality(timers)

MarkStale(t) == [t EXCEPT !.fresh = FALSE]
Elapse(t) == [t EXCEPT !.left = @ - TickMs]

\* Every pending callback has seen processingState change.
MarkAllStale(b) ==
    LET S == BagToSet(b) IN
    [r \in {MarkStale(t) : t \in S} |->
        BagCardinality([t \in {u \in S : MarkStale(u) = r} |-> b[t]])]

\* Every pending callback is TickMs closer to being due.
ElapseAll(b) ==
    [r \in {Elapse(t) : t \in BagToSet(b)} |-> b[[r EXCEPT !.left = @ + TickMs]]]

\* The callbacks still pending after a step that sets processingState to s.
Carry(b, s) == IF s = processingState THEN b ELSE MarkAllStale(b)

Due(kind) == {t \in BagToSet(timers) : t.kind = kind /\ t.left = 0}

\* sessionHides after a step that sets processingState to s and invokes
\* hide_wave_window h times.
SessionCount(s, h) ==
    IF processingState = "idle" /\ s # "idle" THEN h ELSE sessionHides + h

EffectRuns == 1..MaxEffectRuns

\* One run of a listener effect.  started: the effect body ran; awaited:
\* listen() promises that have resolved; cleaned: the cleanup ran; removed:
\* the cleanup's unlisten calls reached the registered listeners.
NotRun == [started |-> FALSE, awaited |-> 0, cleaned |-> FALSE, removed |-> FALSE]

Init ==
    /\ processingState = "idle"
    /\ isReceivingAudio = FALSE
    /\ audioData = EmptyAudio
    /\ timers = EmptyBag
    /\ sessionHides = 0
    /\ quiet = "none"
    /\ chainHides = 0
    /\ stopped = FALSE
    /\ now = StartTime
    /\ checkInProgress = FALSE
    /\ lastCheckTime = 0
    /\ cachedUpdateInfo = NoInfo
    /\ probesInFlight = 0
    /\ callResult = [kind |-> "none", value |-> NoInfo, error |-> "none", at |-> 0]
    /\ issuer = [kind |-> "none", value |-> NoInfo, prior |-> NoInfo, age |-> 0,
                 priorTime |-> 0]
    /\ overlap = [kind |-> "none", value |-> NoInfo, error |-> "none", at |-> 0]
    /\ loading = FALSE
    /\ hookPending = 0
    /\ checkingUpdates = FALSE
    /\ dashboardMounted = FALSE
    /\ dashboardProbes = 0
    /\ tornDown = FALSE
    /\ appEffect = [i \in EffectRuns |-> NotRun]
    /\ waveEffect = [i \in EffectRuns |-> NotRun]
    /\ handled = [app |-> 0, wave |-> 0, stale |-> 0]
    /\ uiState = "recording"
    /\ barHeights = MinBars
    /\ audioListener = "none"
    /\ orphanPending = 0
    /\ orphans = 0
    /\ shown = [frame |-> << >>, mapped |-> FALSE]

\* --------------------------------------------------------------------------
\* Backend event listeners of BubbleWindow
\* --------------------------------------------------------------------------
\* A backend event that sets processingState to s and schedules the
\* callbacks in the bag `sched`.  progressIntervalRef is never assigned, so
\* the clearInterval branches of the listeners never run.
Handle(s, sched, q) ==
    /\ processingState' = s
    /\ timers' = Carry(timers, s) (+) sched
    /\ sessionHides' = SessionCount(s, 0)
    /\ quiet' = q
    /\ chainHides' = 0

Deliver(s, sched, q) ==
    /\ Handle(s, sched, q)
    /\ UNCHANGED outsideWave

AudioDataEvent ==
    \E f \in AudioFrames :
        /\ audioData' = f
        /\ isReceivingAudio' = TRUE
        /\ Deliver(processingState, EmptyBag, "none")
        /\ UNCHANGED stopped

RecordingStarted ==
    /\ Deliver("recording", EmptyBag, "none")
    /\ stopped' = FALSE
    /\ UNCHANGED <<isReceivingAudio, audioData>>

RecordingStopped ==
    /\ isReceivingAudio' = FALSE
    /\ Deliver(processingState, EmptyBag, "none")
    /\ stopped' = TRUE
    /\ UNCHANGED audioData

ExpandForProcessing ==
    /\ NumPending < MaxTimers
    /\ Deliver("expanding", SetToBag({Timer("expand", ExpandDelay)}), "none")
    /\ UNCHANGED <<isReceivingAudio, audioData, stopped>>

TranscriptionStarted ==
    /\ Deliver("processing", EmptyBag, "none")
    /\ UNCHANGED <<isReceivingAudio, audioData, stopped>>

TranscriptionCompleted ==
    /\ NumPending < MaxTimers
    /\ Deliver("completed", SetToBag({Timer("completed", CompletedDelay)}), "completed")
    /\ UNCHANGED <<isReceivingAudio, audioData, stopped>>

WaveReset ==
    /\ isReceivingAudio' = FALSE
    /\ audioData' = EmptyAudio
    /\ Deliver("idle", EmptyBag, "none")
    /\ UNCHANGED stopped

TranscriptionError ==
    /\ NumPending < MaxTimers
    /\ Deliver("error", SetToBag({Timer("error", ErrorDelay)}), "error")
    /\ UNCHANGED <<isReceivingAudio, audioData, stopped>>

\* The backend emits transcription-cancelled.  The effect registers no
\* listener for it, so nothing in BubbleWindow runs.
TranscriptionCancelled ==
    /\ quiet' = "cancelled"
    /\ chainHides' = 0
    /\ UNCHANGED <<processingState, isReceivingAudio, audioData, timers,
                   sessionHides, stopped>>
    /\ UNCHANGED outsideWave

\* --------------------------------------------------------------------------
\* Painting of BubbleWindow
\* --------------------------------------------------------------------------
Abs(x) == IF x < 0 THEN -x ELSE x
Max(a, b) == IF a >= b THEN a ELSE b
Min(a, b) == IF a <= b THEN a ELSE b

\* samples.slice(0, count), then push(0) while shorter than count.
PadTo(samples, count) ==
    [i \in 1..count |-> IF i <= Len(samples) THEN samples[i] ELSE 0]

\* Math.max(3, Math.abs(sample) * height * 0.8) for each of the 8 bars.
DrawRecordingBars(samples) ==
    [i \in 1..WaveBarCount |->
        Max(Px(WaveBarMinHeight),
            Abs(PadTo(samples, WaveBarCount)[i]) * CanvasHeight * 8)]

IdleBars == [i \in 1..WaveBarCount |-> Px(IdleBarHeight)]

\* The bar heights drawWaveform paints; << >> where it paints no bars.
PaintedBars(state, receiving, data) ==
    IF state = "processing" THEN DrawRecordingBars(data.samples)
    ELSE IF state = "recording"
    THEN IF ~receiving \/ Len(data.samples) = 0
         THEN IdleBars
         ELSE DrawRecordingBars(data.samples)
    ELSE << >>

\* --------------------------------------------------------------------------
\* setTimeout callbacks of BubbleWindow
\* --------------------------------------------------------------------------
\* The callback t runs: it sets processingState to s, schedules `sched` and
\* invokes hide_wave_window h times.  The invoke sits behind
\* import('@tauri-apps/api/core').then(...); the module is already loaded
\* (listen comes from the same package), so the promise settles in the
\* microtasks of the callback's own task, before any other event or timer.
Fire(t, s, sched, h) ==
    /\ processingState' = s
    /\ timers' = Carry(timers (-) SetToBag({t}), s) (+) sched
    /\ sessionHides' = SessionCount(s, h)
    /\ chainHides' = chainHides + h
    /\ UNCHANGED <<quiet, stopped>>
    /\ UNCHANGED outsideWave

\* The expand callback setting a value outside ProcessingState.
ExpandCallback_Typo(t) ==
    /\ Fire(t, "procesing", EmptyBag, 0)
    /\ UNCHANGED <<isReceivingAudio, audioData>>

ExpandCallback(t) ==
    /\ Fire(t, "processing", EmptyBag, 0)
    /\ UNCHANGED <<isReceivingAudio, audioData>>

CompletedCallback(t) ==
    /\ Fire(t, "leaving", SetToBag({Timer("completedHide", LeavingDelay)}), 0)
    /\ UNCHANGED <<isReceivingAudio, audioData>>

CompletedHideCallback(t) ==
    /\ Fire(t, "idle", EmptyBag, 1)
    /\ isReceivingAudio' = FALSE
    /\ audioData' = EmptyAudio

ErrorCallback(t) ==
    /\ Fire(t, "leaving", SetToBag({Timer("errorHide", LeavingDelay)}), 0)
    /\ UNCHANGED <<isReceivingAudio, audioData>>

\* The hide callback without its setProcessingState('idle').
ErrorHideCallback_NoReset(t) ==
    /\ Fire(t, processingState, EmptyBag, 1)
    /\ UNCHANGED <<isReceivingAudio, audioData>>

ErrorHideCallback(t) ==
    /\ Fire(t, "idle", EmptyBag, 1)
    /\ UNCHANGED <<isReceivingAudio, audioData>>

ExpandTimer == \E t \in Due("expand") : ExpandCallback(t)

CompletedTimer == \E t \in Due("completed") : CompletedCallback(t)

CompletedHideTimer == \E t \in Due("completedHide") : CompletedHideCallback(t)

ErrorTimer == \E t \in Due("error") : ErrorCallback(t)

ErrorHideTimer == \E t \in Due("errorHide") : ErrorHideCallback(t)

\* TickMs pass; no callback is due.
Tick ==
    /\ timers # EmptyBag
    /\ \A t \in BagToSet(timers) : t.left > 0
    /\ timers' = ElapseAll(timers)
    /\ UNCHANGED <<processingState, isReceivingAudio, audioData,
                   sessionHides, quiet, chainHides, stopped>>
    /\ UNCHANGED outsideWave

Next ==
    \/ AudioDataEvent
    \/ RecordingStarted
    \/ RecordingStopped
    \/ ExpandForProcessing
    \/ TranscriptionStarted
    \/ TranscriptionCompleted
    \/ WaveReset
    \/ TranscriptionError
    \/ TranscriptionCancelled
    \/ ExpandTimer
    \/ CompletedTimer
    \/ CompletedHideTimer
    \/ ErrorTimer
    \/ ErrorHideTimer
    \/ Tick

Spec == Init /\ [][Next]_vars

\* --------------------------------------------------------------------------
\* Teardown of BubbleWindow
\* --------------------------------------------------------------------------
\* The cleanup of the listener effect: every unlisten promise gets
\* .then(fn => fn()), which removes the listeners (they are registered by
\* then).  progressIntervalRef is null.  No setTimeout handle exists to clear.
Teardown ==
    /\ ~tornDown
    /\ tornDown' = TRUE
    /\ UNCHANGED <<waveVars, updateVars, dashboardVars, mountVars, pillVars>>

\* What still runs after the cleanup: pending setTimeout callbacks.
AfterTeardown ==
    \/ ExpandTimer
    \/ CompletedTimer
    \/ CompletedHideTimer
    \/ ErrorTimer
    \/ ErrorHideTimer
    \/ Tick

TeardownNext ==
    \/ ~tornDown /\ Next
    \/ Teardown
    \/ tornDown /\ AfterTeardown

TeardownSpec == Init /\ [][TeardownNext]_vars

\* --------------------------------------------------------------------------
\* Listener registration of App and of BubbleWindow
\* --------------------------------------------------------------------------
\* The effect may run for the i-th time: earlier runs have been cleaned up.
MayRun(e, i) ==
    /\ ~e[i].started
    /\ \A j \in EffectRuns : j < i => (e[j].started /\ e[j].cleaned)

\* App: the effect body runs: setupListeners() is called and suspends at its
\* first await listen(...).
AppMount ==
    \E i \in EffectRuns :
        /\ MayRun(appEffect, i)
        /\ appEffect' = [appEffect EXCEPT ![i].started = TRUE]
        /\ UNCHANGED <<waveEffect, handled>>
        /\ UNCHANGED <<waveVars, updateVars, dashboardVars, tornDown, pillVars>>

\* App: the awaited listen() resolves: the listener is registered and
\* setupListeners goes on to the next await; after the last one it assigns
\* `unlisteners`.
AppListenResolves ==
    \E i \in EffectRuns :
        /\ appEffect[i].started
        /\ appEffect[i].awaited < NumAppListeners
        /\ appEffect' = [appEffect EXCEPT ![i].awaited = @ + 1]
        /\ UNCHANGED <<waveEffect, handled>>
        /\ UNCHANGED <<waveVars, updateVars, dashboardVars, tornDown, pillVars>>

\* App: the cleanup runs unlisteners.forEach(unlisten => unlisten()); the
\* array is still empty unless setupListeners has finished.
AppCleanup ==
    \E i \in EffectRuns :
        /\ appEffect[i].started
        /\ ~appEffect[i].cleaned
        /\ appEffect' = [appEffect EXCEPT
                            ![i].cleaned = TRUE,
                            ![i].removed = (appEffect[i].awaited = NumAppListeners)]
        /\ UNCHANGED <<waveEffect, handled>>
        /\ UNCHANGED <<waveVars, updateVars, dashboardVars, tornDown, pillVars>>

\* BubbleWindow: the effect body runs: listen("recording-started", ...) is
\* called and its promise kept in unlistenRecordingStarted.
WaveMount ==
    \E i \in EffectRuns :
        /\ MayRun(waveEffect, i)
        /\ waveEffect' = [waveEffect EXCEPT ![i].started = TRUE]
        /\ UNCHANGED <<appEffect, handled>>
        /\ UNCHANGED <<waveVars, updateVars, dashboardVars, tornDown, pillVars>>

\* BubbleWindow: the listen() promise resolves; a .then(fn => fn()) attached
\* by an earlier cleanup runs at once.
WaveListenResolves ==
    \E i \in EffectRuns :
        /\ waveEffect[i].started
        /\ waveEffect[i].awaited = 0
        /\ waveEffect' = [waveEffect EXCEPT
                             ![i].awaited = 1,
                             ![i].removed = waveEffect[i].cleaned]
        /\ UNCHANGED <<appEffect, handled>>
        /\ UNCHANGED <<waveVars, updateVars, dashboardVars, tornDown, pillVars>>

\* BubbleWindow: the cleanup attaches .then(fn => fn()) to the promise; it
\* runs at once if the promise has resolved.
WaveCleanup ==
    \E i \in EffectRuns :
        /\ waveEffect[i].started
        /\ ~waveEffect[i].cleaned
        /\ waveEffect' = [waveEffect EXCEPT
                             ![i].cleaned = TRUE,
                             ![i].removed = (waveEffect[i].awaited = 1)]
        /\ UNCHANGED <<appEffect, handled>>
        /\ UNCHANGED <<waveVars, updateVars, dashboardVars, tornDown, pillVars>>

\* The runs of the effect e whose recording-started listener is registered.
Live(e) == {i \in EffectRuns : e[i].awaited >= 1 /\ ~e[i].removed}

\* Those among them whose cleanup has run.
Stale(e) == {i \in Live(e) : e[i].cleaned}

\* The backend emits recording-started: every registered listener runs.
\* BubbleWindow's listener sets processingState to recording.
EmitRecordingStarted ==
    /\ handled' = [app |-> Cardinality(Live(appEffect)),
                   wave |-> Cardinality(Live(waveEffect)),
                   stale |-> Cardinality(Stale(appEffect))
                             + Cardinality(Stale(waveEffect))]
    /\ processingState' =
          IF Live(waveEffect) # {} THEN "recording" ELSE processingState
    /\ sessionHides' =
          IF Live(waveEffect) # {} THEN SessionCount("recording", 0)
                                   ELSE sessionHides
    /\ timers' =
          IF Live(waveEffect) # {} THEN Carry(timers, "recording") ELSE timers
    /\ quiet' = IF Live(waveEffect) # {} THEN "none" ELSE quiet
    /\ chainHides' = IF Live(waveEffect) # {} THEN 0 ELSE chainHides
    /\ stopped' = IF Live(waveEffect) # {} THEN FALSE ELSE stopped
    /\ UNCHANGED <<isReceivingAudio, audioData>>
    /\ UNCHANGED <<appEffect, waveEffect>>
    /\ UNCHANGED <<updateVars, dashboardVars, tornDown, pillVars>>

MountNext ==
    \/ AppMount
    \/ AppListenResolves
    \/ AppCleanup
    \/ WaveMount
    \/ WaveListenResolves
    \/ WaveCleanup
    \/ EmitRecordingStarted

MountSpec == Init /\ [][MountNext]_vars

\* --------------------------------------------------------------------------
\* The pill's bars (App.tsx)
\* --------------------------------------------------------------------------
\* The mapping without the deadband test.
ScaleBar_NoDeadband(level) ==
    LET sensitiveLevel == Min(level * SENSITIVITY, FullLevel)
    IN  Px(BAR_MIN_HEIGHT)
          + (sensitiveLevel * Px(BAR_MAX_HEIGHT - BAR_MIN_HEIGHT)) \div FullLevel

\* One sample to one height: Math.min(level * SENSITIVITY, 1.0), the
\* deadband, then the linear map onto [BAR_MIN_HEIGHT, BAR_MAX_HEIGHT].
ScaleBar(level) ==
    LET sensitiveLevel == Min(level * SENSITIVITY, FullLevel)
    IN  IF sensitiveLevel < Deadband
        THEN Px(BAR_MIN_HEIGHT)
        ELSE Px(BAR_MIN_HEIGHT)
               + (sensitiveLevel * Px(BAR_MAX_HEIGHT - BAR_MIN_HEIGHT)) \div FullLevel

\* The mapping without the padding loop.
ScaledBars_NoPadding(samples) ==
    [i \in 1..Min(Len(samples), BAR_COUNT) |-> ScaleBar(samples[i])]

\* samples.slice(0, BAR_COUNT), padded with 0, mapped through ScaleBar.
ScaledBars(samples) ==
    [i \in 1..BAR_COUNT |-> ScaleBar(PadTo(samples, BAR_COUNT)[i])]

\* The cleanup of the bar effect: unlisten() if the listen() promise has
\* resolved; otherwise `unlisten` is still null and the listener, once
\* registered, is never removed.
BarEffectCleanup ==
    orphanPending' = IF audioListener = "pending"
                        THEN orphanPending + 1 ELSE orphanPending

\* The body of the bar effect for uiState s: listen("audio-data") while
\* recording, otherwise reset the bars.
BarEffectBody(s) ==
    IF s = "recording"
    THEN /\ audioListener' = "pending"
         /\ UNCHANGED <<barHeights, shown>>
    ELSE /\ audioListener' = "none"
         /\ barHeights' = MinBars
         /\ shown' = [frame |-> << >>, mapped |-> FALSE]

\* App is mounted: the bar effect runs for the first time.
PillMount ==
    /\ audioListener = "none"
    /\ uiState = "recording"
    /\ BarEffectBody(uiState)
    /\ UNCHANGED <<uiState, orphanPending, orphans>>
    /\ UNCHANGED <<waveVars, updateVars, dashboardVars, tornDown, mountVars>>

\* setUiState(s) with a new value (a backend event or resetToRecording):
\* the bar effect is cleaned up and runs again.
SetUiState ==
    \E s \in UIState :
        /\ s # uiState
        /\ audioListener = "pending" => orphanPending + orphans < MaxLeaked
        /\ uiState' = s
        /\ BarEffectCleanup
        /\ BarEffectBody(s)
        /\ UNCHANGED orphans
        /\ UNCHANGED <<waveVars, updateVars, dashboardVars, tornDown, mountVars>>

\* The listen() promise of the current effect run resolves:
\* unlisten = await listen(...).
AudioListenResolves ==
    /\ audioListener = "pending"
    /\ audioListener' = "live"
    /\ UNCHANGED <<uiState, barHeights, orphanPending, orphans, shown>>
    /\ UNCHANGED <<waveVars, updateVars, dashboardVars, tornDown, mountVars>>

\* The listen() promise of an effect run already cleaned up resolves.
OrphanListenResolves ==
    /\ orphanPending > 0
    /\ orphanPending' = orphanPending - 1
    /\ orphans' = orphans + 1
    /\ UNCHANGED <<uiState, barHeights, audioListener, shown>>
    /\ UNCHANGED <<waveVars, updateVars, dashboardVars, tornDown, mountVars>>

\* The pill's audio-data listener, if one is registered, handles the frame.
PillHandles(samples) ==
    IF audioListener = "live" \/ orphans > 0
    THEN /\ barHeights' = IF Len(samples) > 0 THEN ScaledBars(samples)
                                               ELSE barHeights
         /\ shown' = [frame |-> samples, mapped |-> Len(samples) > 0]
    ELSE UNCHANGED <<barHeights, shown>>

\* The backend emits audio-data: BubbleWindow's listener and the pill's
\* listeners handle it.
AudioDataEmitted ==
    \E f \in SampleFrames :
        /\ audioData' = [samples |-> f, volume |-> 0]
        /\ isReceivingAudio' = TRUE
        /\ Handle(processingState, EmptyBag, "none")
        /\ PillHandles(f)
        /\ UNCHANGED <<stopped, uiState, audioListener, orphanPending, orphans>>
        /\ UNCHANGED <<updateVars, dashboardVars, tornDown, mountVars>>

BarsNext ==
    \/ PillMount
    \/ SetUiState
    \/ AudioListenResolves
    \/ OrphanListenResolves
    \/ AudioDataEmitted
    \/ RecordingStarted

BarsSpec == Init /\ [][BarsNext]_vars

\* --------------------------------------------------------------------------
\* UpdateManager
\* --------------------------------------------------------------------------
Cached == cachedUpdateInfo # NoInfo

InProgressError == "Update check already in progress"
ProbeError == "check_for_updates failed"

\* Outcomes of a call; at: Date.now() when the call returned, threw or
\* suspended.
Returned(v) == [kind |-> "returned", value |-> v, error |-> "none", at |-> now]
Thrown(e) == [kind |-> "thrown", value |-> NoInfo, error |-> e, at |-> now]
Suspended == [kind |-> "suspended", value |-> NoInfo, error |-> "none", at |-> now]
NoCall == [kind |-> "none", value |-> NoInfo, error |-> "none", at |-> 0]

\* The in-progress branch throwing even when a value is cached.
AnswerWhileInProgress_AlwaysThrows ==
    /\ callResult' = Thrown(InProgressError)
    /\ overlap' = callResult'
    /\ UNCHANGED <<checkInProgress, lastCheckTime, probesInFlight, issuer>>

\* if (this.checkInProgress) { ... }: return the cached value or throw.
AnswerWhileInProgress ==
    /\ callResult' = IF Cached THEN Returned(cachedUpdateInfo)
                               ELSE Thrown(InProgressError)
    /\ overlap' = callResult'
    /\ UNCHANGED <<checkInProgress, lastCheckTime, probesInFlight, issuer>>

\* Within the cooldown with a cached value: return it.
AnswerFromCache ==
    /\ callResult' = Returned(cachedUpdateInfo)
    /\ UNCHANGED <<checkInProgress, lastCheckTime, probesInFlight, issuer, overlap>>

\* IssueProbe without this.checkInProgress = true.
IssueProbe_FlagNotSet ==
    /\ lastCheckTime' = now
    /\ probesInFlight' = probesInFlight + 1
    /\ callResult' = Suspended
    /\ issuer' = [kind |-> "suspended", value |-> NoInfo,
                  prior |-> cachedUpdateInfo, age |-> now - lastCheckTime,
                  priorTime |-> lastCheckTime]
    /\ overlap' = NoCall
    /\ UNCHANGED checkInProgress

\* Set the flag and the timestamp, call invoke("check_for_updates"), suspend.
IssueProbe ==
    /\ checkInProgress' = TRUE
    /\ lastCheckTime' = now
    /\ probesInFlight' = probesInFlight + 1
    /\ callResult' = Suspended
    /\ issuer' = [kind |-> "suspended", value |-> NoInfo,
                  prior |-> cachedUpdateInfo, age |-> now - lastCheckTime,
                  priorTime |-> lastCheckTime]
    /\ overlap' = NoCall

\* The cooldown test with <= in place of <.
WithinCooldown_Inclusive == now - lastCheckTime <= CHECK_COOLDOWN

\* now - this.lastCheckTime < this.CHECK_COOLDOWN
WithinCooldown == now - lastCheckTime < CHECK_COOLDOWN

\* useUpdate.checkForUpdates around the call: setLoading(true), await
\* updateManager.checkForUpdates(); a call that returned or threw without
\* suspending reaches the finally block (setLoading(false)) in the
\* microtasks of the same task.
HookCalls ==
    /\ loading' = (callResult'.kind = "suspended")
    /\ hookPending' = IF callResult'.kind = "suspended"
                          THEN hookPending + 1 ELSE hookPending

\* useUpdate.checkForUpdates after the probe settled: setUpdateInfo or
\* setError, then the finally block.
HookSettles ==
    /\ loading' = FALSE
    /\ hookPending' = hookPending - 1

\* checkForUpdates() without the checkInProgress test at its head.
CheckForUpdates_NoGuard ==
    /\ IF WithinCooldown /\ Cached
       THEN AnswerFromCache
       ELSE IssueProbe
    /\ HookCalls
    /\ UNCHANGED <<now, cachedUpdateInfo>>
    /\ UNCHANGED outsideUpdate

\* checkForUpdates() up to its first suspension point: the call returns the
\* cached value, throws, or issues the probe and suspends.
CheckForUpdates ==
    /\ IF checkInProgress
       THEN AnswerWhileInProgress
       ELSE IF WithinCooldown /\ Cached
       THEN AnswerFromCache
       ELSE IssueProbe
    /\ HookCalls
    /\ UNCHANGED <<now, cachedUpdateInfo>>
    /\ UNCHANGED outsideUpdate

\* The probe's promise fulfils: the try block stores and returns the result,
\* the finally block clears the flag.
ProbeResolves ==
    \E result \in UpdateInfos :
        /\ probesInFlight > 0
        /\ cachedUpdateInfo' = result
        /\ checkInProgress' = FALSE
        /\ probesInFlight' = probesInFlight - 1
        /\ callResult' = Returned(result)
        /\ issuer' = [issuer EXCEPT !.kind = "returned", !.value = result]
        /\ HookSettles
        /\ UNCHANGED <<now, lastCheckTime, overlap>>
        /\ UNCHANGED outsideUpdate

\* The rejected probe also dropping the cached value.
ProbeRejects_ClearsCache ==
    /\ probesInFlight > 0
    /\ checkInProgress' = FALSE
    /\ probesInFlight' = probesInFlight - 1
    /\ callResult' = Thrown(ProbeError)
    /\ issuer' = [issuer EXCEPT !.kind = "thrown"]
    /\ HookSettles
    /\ cachedUpdateInfo' = NoInfo
    /\ UNCHANGED <<now, lastCheckTime, overlap>>
    /\ UNCHANGED outsideUpdate

\* The rejected probe without the finally block.
ProbeRejects_KeepsFlag ==
    /\ probesInFlight > 0
    /\ probesInFlight' = probesInFlight - 1
    /\ callResult' = Thrown(ProbeError)
    /\ issuer' = [issuer EXCEPT !.kind = "thrown"]
    /\ HookSettles
    /\ UNCHANGED <<now, checkInProgress, lastCheckTime, cachedUpdateInfo, overlap>>
    /\ UNCHANGED outsideUpdate

\* The probe's promise rejects: the catch block rethrows, the finally block
\* clears the flag.
ProbeRejects ==
    /\ probesInFlight > 0
    /\ checkInProgress' = FALSE
    /\ probesInFlight' = probesInFlight - 1
    /\ callResult' = Thrown(ProbeError)
    /\ issuer' = [issuer EXCEPT !.kind = "thrown"]
    /\ HookSettles
    /\ UNCHANGED <<now, lastCheckTime, cachedUpdateInfo, overlap>>
    /\ UNCHANGED outsideUpdate

\* Date.now() advances.
AdvanceClock ==
    /\ now < StartTime + MaxClockSteps * ClockStep
    /\ now' = now + ClockStep
    /\ UNCHANGED <<checkInProgress, lastCheckTime, cachedUpdateInfo,
                   probesInFlight, callResult, issuer, overlap,
                   loading, hookPending>>
    /\ UNCHANGED outsideUpdate

\* --------------------------------------------------------------------------
\* Dashboard (its own update check, not routed through UpdateManager)
\* --------------------------------------------------------------------------
\* Dashboard.checkForUpdates up to its await: setCheckingUpdates(true) and
\* invoke("check_for_updates").
DashboardCheck ==
    /\ checkingUpdates' = TRUE
    /\ dashboardProbes' = dashboardProbes + 1

\* The mount effect calls checkForUpdates().
DashboardMount ==
    /\ ~dashboardMounted
    /\ dashboardMounted' = TRUE
    /\ DashboardCheck
    /\ UNCHANGED <<waveVars, updateVars, tornDown, mountVars, pillVars>>

\* The "Check for Updates" button, disabled while checkingUpdates.
DashboardClick ==
    /\ dashboardMounted
    /\ ~checkingUpdates
    /\ DashboardCheck
    /\ UNCHANGED dashboardMounted
    /\ UNCHANGED <<waveVars, updateVars, tornDown, mountVars, pillVars>>

\* The Dashboard's probe settles: the finally block clears checkingUpdates.
DashboardProbeSettles ==
    /\ dashboardProbes > 0
    /\ dashboardProbes' = dashboardProbes - 1
    /\ checkingUpdates' = FALSE
    /\ UNCHANGED dashboardMounted
    /\ UNCHANGED <<waveVars, updateVars, tornDown, mountVars, pillVars>>

UpdateNext ==
    \/ CheckForUpdates
    \/ ProbeResolves
    \/ ProbeRejects
    \/ AdvanceClock
    \/ DashboardMount
    \/ DashboardClick
    \/ DashboardProbeSettles

UpdateSpec == Init /\ [][UpdateNext]_vars

\* --------------------------------------------------------------------------
\* Properties of the overlay state machine
\* --------------------------------------------------------------------------
\* The step runs the callback of the pending timer t.
Runs(t) ==
    /\ t.left = 0
    /\ \/ t.kind = "expand" /\ ExpandCallback(t)
       \/ t.kind = "completed" /\ CompletedCallback(t)
       \/ t.kind = "completedHide" /\ CompletedHideCallback(t)
       \/ t.kind = "error" /\ ErrorCallback(t)
       \/ t.kind = "errorHide" /\ ErrorHideCallback(t)

\* The step invokes hide_wave_window.
HideInvoked == chainHides' = chainHides + 1

\* C1: between two steps that leave idle (one session and the idle period
\* after it), hide_wave_window is invoked at most once, whatever terminal
\* events were delivered in the session.
C1_HideAtMostOncePerSession == sessionHides <= 1

\* C2: a timer callback changes processingState only if processingState has
\* not changed since the callback was scheduled.
C2_TimerOnlyFromSchedulingState ==
    [][\A t \in BagToSet(timers) :
          (Runs(t) /\ ~t.fresh) => processingState' = processingState]_vars

\* C3: handling wave-reset sets processingState to idle and leaves no timer
\* pending.
C3_ResetCancelsTimers ==
    [][WaveReset => (processingState' = "idle" /\ timers' = EmptyBag)]_vars

\* C4: at most one state-transition timer is pending in every reachable state.
C4_AtMostOneTimer == NumPending <= 1

\* C5: hide_wave_window is invoked only in a step from leaving to idle.
C5_HideOnlyAtLeavingToIdle ==
    [][HideInvoked =>
          (processingState = "leaving" /\ processingState' = "idle")]_vars

\* The step is taken while the last backend event delivered is still the
\* terminal event q.
Undisturbed(q) == quiet = q /\ quiet' = q

\* After the terminal event q (which entered `entered`), with no further
\* backend event: the only state changes are entered -> leaving -> idle,
\* hide_wave_window is invoked once, and the machine rests in idle.
ChainRuns(q, entered) ==
    Undisturbed(q) =>
        /\ processingState' # processingState =>
              <<processingState, processingState'>> \in
                  {<<entered, "leaving">>, <<"leaving", "idle">>}
        /\ chainHides' <= 1
        /\ timers' = EmptyBag => (processingState' = "idle" /\ chainHides' = 1)

\* C6: after transcription-completed, with no further backend event, the
\* state goes completed -> leaving -> idle with no other state in between and
\* hide_wave_window is invoked exactly once.
C6_CompletedChain == [][ChainRuns("completed", "completed")]_vars

\* C7: after transcription-error, with no further backend event, the state
\* goes error -> leaving -> idle with no other state in between and
\* hide_wave_window is invoked exactly once.
C7_ErrorChain == [][ChainRuns("error", "error")]_vars

C9_TerminalEventInIdleIsNoOp ==
    [][((TranscriptionCompleted \/ TranscriptionError) /\ processingState = "idle")
          => (processingState' = "idle" /\ timers' = timers)]_vars

\* --------------------------------------------------------------------------
\* Properties of UpdateManager
\* --------------------------------------------------------------------------
\* C10: at most one check_for_updates probe issued by UpdateManager is in
\* flight at any time.
C10_AtMostOneProbe == probesInFlight <= 1

\* A call was made while the probe was in flight and issued no second probe.
C10_Witness ==
    /\ probesInFlight = 1
    /\ checkInProgress
    /\ callResult.kind \in {"returned", "thrown"}

\* C11 as stated: when a call was made while the probe was in flight and the
\* probe succeeded, both callers got the same UpdateInfo (neither failed).
C11_BothCallersSameValue ==
    (issuer.kind = "returned" /\ overlap.kind # "none") =>
        (overlap.kind = "returned" /\ overlap.value = issuer.value)

\* C11 amended: a call made while the first call's probe is in flight issues
\* no second probe; it returns the value cached before the first call if
\* there was one and otherwise throws "Update check already in progress".
C11_OneProbeSecondGetsPrior ==
    overlap.kind # "none" =>
        /\ issuer.kind = "suspended" => probesInFlight = 1
        /\ IF issuer.prior # NoInfo
           THEN overlap.kind = "returned" /\ overlap.value = issuer.prior
           ELSE overlap.kind = "thrown" /\ overlap.error = InProgressError

\* Both callers returned, with different values.
C11_Witness ==
    /\ issuer.kind = "returned"
    /\ overlap.kind = "returned"
    /\ overlap.value # issuer.value

\* C12: a call made while a probe is in flight issues no probe, leaves the
\* cached value, lastCheckTime and the flag alone, and returns the cached
\* value if there is one, else throws "Update check already in progress".
C12_CallInFlightChangesNothing ==
    [][(CheckForUpdates /\ probesInFlight > 0) =>
          /\ probesInFlight' = probesInFlight
          /\ UNCHANGED <<cachedUpdateInfo, lastCheckTime, checkInProgress>>
          /\ callResult' = IF Cached THEN Returned(cachedUpdateInfo)
                                     ELSE Thrown(InProgressError)]_vars

C12_Witness ==
    /\ probesInFlight = 1
    /\ callResult = Thrown(InProgressError)
    /\ cachedUpdateInfo = NoInfo

\* C13: a call made while no probe is in flight issues a probe iff nothing
\* is cached or CHECK_COOLDOWN ms have passed since lastCheckTime; otherwise
\* it returns the cached value.
C13_ProbeIffStaleOrEmpty ==
    [][(CheckForUpdates /\ probesInFlight = 0) =>
          /\ (probesInFlight' = 1) <=>
                (~Cached \/ now - lastCheckTime >= CHECK_COOLDOWN)
          /\ probesInFlight' = 0 => callResult' = Returned(cachedUpdateInfo)]_vars

\* A probe issued with a cached value, 10 s or more after the previous check.
C13_Witness ==
    /\ issuer.kind = "suspended"
    /\ probesInFlight = 1
    /\ issuer.prior # NoInfo
    /\ issuer.age >= 2 * CHECK_COOLDOWN

\* C14: after a failed probe the cached value is what it was before the call
\* that issued the probe.
C14_FailureKeepsCache ==
    issuer.kind = "thrown" => cachedUpdateInfo = issuer.prior

C14_Witness ==
    /\ issuer.kind = "thrown"
    /\ callResult = Thrown(ProbeError)
    /\ issuer.prior # NoInfo
    /\ cachedUpdateInfo = issuer.prior

\* C15: across UpdateManager and the Dashboard at most one check_for_updates
\* command is outstanding.
C15_OneProbeProcessWide == probesInFlight + dashboardProbes <= 1

\* C21: a failed probe leaves lastCheckTime at its value from before the call
\* that issued the probe.
C21_FailedProbeKeepsTimestamp ==
    issuer.kind = "thrown" => lastCheckTime = issuer.priorTime

\* C22: checkInProgress is true exactly while a probe is outstanding, and no
\* call made with no probe outstanding is rejected as "already in progress".
C22_FlagIffProbeOutstanding ==
    /\ checkInProgress <=> probesInFlight > 0
    /\ probesInFlight = 0 => callResult.error # InProgressError

\* The probe failed, the flag is clear, and a retry has issued a new probe.
C22_Witness ==
    /\ issuer.kind = "suspended"
    /\ issuer.priorTime > 0
    /\ issuer.prior = NoInfo
    /\ checkInProgress
    /\ probesInFlight = 1

\* C30: loading is true exactly while a checkForUpdates call of the hook
\* has not settled.
C30_LoadingIffCallPending == loading <=> hookPending > 0

\* --------------------------------------------------------------------------
\* More properties of the overlay state machine
\* --------------------------------------------------------------------------
\* C17: after the teardown no step changes processingState or invokes
\* hide_wave_window.
C17_NothingRunsAfterTeardown ==
    [][tornDown => (processingState' = processingState /\ ~HideInvoked)]_vars

\* C18: transcription-cancelled sets processingState to leaving and starts
\* one 350 ms timer (which then sets idle).
C18_CancelledLeaves ==
    [][TranscriptionCancelled =>
          /\ processingState' = "leaving"
          /\ \E t \in BagToSet(timers') : t.fresh /\ t.left = 350]_vars

\* C19: processingState is idle initially and always one of the seven values.
C19_StateIsEnumerated ==
    processingState = "idle" /\ [](processingState \in ProcessingState)

\* A timer callback has set the state.
C19_Witness ==
    /\ processingState = "processing"
    /\ quiet = "none"
    /\ \E t \in BagToSet(timers) : ~t.fresh

\* C20: a backend event delivered in a state the transition table does not
\* list for it leaves processingState unchanged.
C20_EventsOnlyFromListedStates ==
    [][/\ (RecordingStarted /\ processingState # "idle")
            => processingState' = processingState
       /\ (ExpandForProcessing /\ processingState \notin {"idle", "recording"})
            => processingState' = processingState
       /\ (TranscriptionStarted
              /\ processingState \notin {"idle", "recording", "expanding"})
            => processingState' = processingState
       /\ ((TranscriptionCompleted \/ TranscriptionError)
              /\ processingState # "processing")
            => processingState' = processingState]_vars

\* C23: the bars painted in processing are those last painted before
\* processing was entered, and an audio-data event handled in processing
\* does not change them.
C23_BarsFrozenInProcessing ==
    [][/\ (processingState = "recording" /\ processingState' = "processing")
            => PaintedBars(processingState', isReceivingAudio', audioData')
                 = PaintedBars(processingState, isReceivingAudio, audioData)
       /\ (AudioDataEvent /\ processingState = "processing")
            => PaintedBars(processingState', isReceivingAudio', audioData')
                 = PaintedBars(processingState, isReceivingAudio, audioData)]_vars

\* C27: every step that takes processingState from another state to idle
\* leaves the stored frame empty and the receiving flag false.
C27_IdleClearsAudio ==
    [][(processingState # "idle" /\ processingState' = "idle")
          => (audioData' = EmptyAudio /\ ~isReceivingAudio')]_vars

\* C28: recording-stopped leaves processingState unchanged, and from then
\* until the next recording-started the receiving flag is false.
C28_FlagStaysClearAfterStop ==
    [][/\ RecordingStopped => processingState' = processingState
       /\ stopped' => ~isReceivingAudio']_vars

\* --------------------------------------------------------------------------
\* Properties of the bars
\* --------------------------------------------------------------------------
\* The pill's bars are BAR_COUNT heights within [BAR_MIN_HEIGHT, BAR_MAX_HEIGHT].
PillBarsWithinRange ==
    /\ Len(barHeights) = BAR_COUNT
    /\ \A i \in 1..Len(barHeights) :
          Px(BAR_MIN_HEIGHT) <= barHeights[i] /\ barHeights[i] <= Px(BAR_MAX_HEIGHT)

\* BubbleWindow's bars for the stored frame are WaveBarCount heights, none
\* below the minimum and none taller than the canvas.
WaveBarsWithinRange ==
    LET bars == PaintedBars(processingState, isReceivingAudio, audioData)
    IN  /\ Len(bars) = WaveBarCount
        /\ \A i \in 1..Len(bars) :
              Px(WaveBarMinHeight) <= bars[i] /\ bars[i] <= Px(CanvasHeight)

\* C24: the bar heights computed from a frame are a fixed number of values,
\* each within the minimum and maximum height, in the pill and in
\* BubbleWindow (recording, with a non-empty frame).
C24_BarsCountedAndClamped ==
    /\ PillBarsWithinRange
    /\ (processingState = "recording" /\ isReceivingAudio
           /\ Len(audioData.samples) > 0) => WaveBarsWithinRange

\* The frame of eight samples of 0.5.
EightHalves == [i \in 1..8 |-> 500]

\* C25 as stated: the frame of eight samples of 0.5 gives BAR_MAX_HEIGHT in
\* every bar.
C25_AllBarsMax ==
    (shown.mapped /\ shown.frame = EightHalves) =>
        \A i \in 1..Len(barHeights) : barHeights[i] = Px(BAR_MAX_HEIGHT)

\* C25 amended: the frame of eight samples of 0.5 gives BAR_COUNT bars, the
\* first eight at BAR_MAX_HEIGHT and the zero-padded rest at BAR_MIN_HEIGHT.
C25_EightBarsMaxRestMin ==
    (shown.mapped /\ shown.frame = EightHalves) =>
        barHeights = [i \in 1..BAR_COUNT |->
                         IF i <= 8 THEN Px(BAR_MAX_HEIGHT) ELSE Px(BAR_MIN_HEIGHT)]

C25_Witness ==
    /\ shown.mapped
    /\ shown.frame = EightHalves
    /\ uiState = "recording"
    /\ barHeights[1] = Px(BAR_MAX_HEIGHT)

C29_BarsMinOutsideRecording ==
    uiState # "recording" => barHeights = MinBars

\* --------------------------------------------------------------------------
\* Properties of listener registration
\* --------------------------------------------------------------------------
\* C16: a delivered recording-started is handled by at most one listener of
\* each component, and by no listener of a run whose cleanup has run.
C16_OneLiveListener ==
    handled.app <= 1 /\ handled.wave <= 1 /\ handled.stale = 0

====
